---- MODULE Spec2Model ----
(***************************************************************************)
(* A model of structlib: the transform algebra (transform.py), the cell    *)
(* geometry helpers (cell.py) and the atom collection (frame.py).          *)
(*                                                                         *)
(* Numbers.  The transform algebra is modelled over the integers: every    *)
(* matrix entry and coordinate is an integer, angles are whole quarter     *)
(* turns (so that sin and cos are 0, 1 or -1) and axis vectors are         *)
(* chosen so that normalising them stays in the integers.  All matrix      *)
(* arithmetic is then exact.                                               *)
(***************************************************************************)
EXTENDS Integers, Sequences, FiniteSets, TLC

VARIABLES ta, tb, ncomp, res,
          cell,
          frame, fres,
          dd,
          heap, hres

vars == <<ta, tb, ncomp, res, cell, frame, fres, dd, heap, hres>>

\* ------------------------------------------------------------------------
\* Bounds of the model
\* ------------------------------------------------------------------------

\* how many compositions are accumulated into the register ta
MaxCompose == 1

\* ------------------------------------------------------------------------
\* Integer helpers
\* ------------------------------------------------------------------------

Abs(x) == IF x < 0 THEN -x ELSE x

Sgn(x) == IF x < 0 THEN -1 ELSE IF x = 0 THEN 0 ELSE 1

\* exact division of integers (the quotient of a by b, b # 0, rounded to zero)
Quot(a, b) == Sgn(a) * Sgn(b) * (Abs(a) \div Abs(b))

\* ------------------------------------------------------------------------
\* numpy arrays: a matrix is a tuple of rows, a vector a tuple of numbers
\* ------------------------------------------------------------------------

\* numpy.dot of two vectors of length 3 or 4
Dot(u, v) ==
    IF Len(u) = 3 THEN u[1] * v[1] + u[2] * v[2] + u[3] * v[3]
    ELSE u[1] * v[1] + u[2] * v[2] + u[3] * v[3] + u[4] * v[4]

\* A @ B for two square matrices, 3x3 or 4x4
MatMul(A, B) ==
    IF Len(A) = 3
    THEN [i \in 1..3 |-> [j \in 1..3 |->
            A[i][1] * B[1][j] + A[i][2] * B[2][j] + A[i][3] * B[3][j]]]
    ELSE [i \in 1..4 |-> [j \in 1..4 |->
            A[i][1] * B[1][j] + A[i][2] * B[2][j] + A[i][3] * B[3][j] + A[i][4] * B[4][j]]]

\* A @ v for a matrix and a vector
MatVec(A, v) == [i \in 1..Len(A) |-> Dot(A[i], v)]

\* numpy.eye(n)
Eye(n) == [i \in 1..n |-> [j \in 1..n |-> IF i = j THEN 1 ELSE 0]]

\* numpy.outer(u, v)
Outer(u, v) == [i \in 1..Len(u) |-> [j \in 1..Len(v) |-> u[i] * v[j]]]

MatAdd(A, B) == [i \in 1..Len(A) |-> [j \in 1..Len(A) |-> A[i][j] + B[i][j]]]

MatScale(c, A) == [i \in 1..Len(A) |-> [j \in 1..Len(A) |-> c * A[i][j]]]

\* numpy.linalg.det of a 3x3 matrix
Det3(M) ==
    M[1][1] * (M[2][2] * M[3][3] - M[2][3] * M[3][2])
  - M[1][2] * (M[2][1] * M[3][3] - M[2][3] * M[3][1])
  + M[1][3] * (M[2][1] * M[3][2] - M[2][2] * M[3][1])

\* the adjugate of a 3x3 matrix: Adj3(M) @ M = Det3(M) * I
Adj3(M) ==
    LET nx(i) == (i % 3) + 1
        c(i, j) == M[nx(i)][nx(j)] * M[nx(nx(i))][nx(nx(j))]
                 - M[nx(i)][nx(nx(j))] * M[nx(nx(i))][nx(j)]
    IN  [i \in 1..3 |-> [j \in 1..3 |-> c(j, i)]]

\* numpy.linalg.inv is modelled on the matrices whose inverse is again an
\* integer matrix (determinant 1 or -1); other matrices leave the integers.
InvExact(M) == Det3(M) \in {1, -1}

Inv3(M) ==
    LET adj == Adj3(M)
        d   == Det3(M)
    IN  [i \in 1..3 |-> [j \in 1..3 |-> Quot(adj[i][j], d)]]

\* numpy.linalg.norm of a vector whose norm is an integer
Norm(v) == CHOOSE r \in 0..Dot(v, v) : r * r = Dot(v, v)

\* v /= numpy.linalg.norm(v)
Normalized(v) == [i \in 1..Len(v) |-> Quot(v[i], Norm(v))]

\* sin, cos and 2 sin^2(t/2) of an angle of k quarter turns
Sin(k) == <<0, 1, 0, -1>>[(k % 4) + 1]

Cos(k) == <<1, 0, -1, 0>>[(k % 4) + 1]

TwoSinSqHalf(k) == <<0, 1, 2, 1>>[(k % 4) + 1]

\* ------------------------------------------------------------------------
\* Vec3 and BBox (vec.py is not part of the sources: modelled from the
\* specification's data model)
\* ------------------------------------------------------------------------

\* BBox.corners: the 8 vertices of the box
corners(box) ==
    { <<x, y, z>> : x \in {box.min[1], box.max[1]},
                    y \in {box.min[2], box.max[2]},
                    z \in {box.min[3], box.max[3]} }

SetMin(S) == CHOOSE m \in S : \A x \in S : m <= x

SetMax(S) == CHOOSE m \in S : \A x \in S : m >= x

\* BBox.from_pts: the componentwise extrema of a point set
from_pts(pts) ==
    [min |-> [i \in 1..3 |-> SetMin({p[i] : p \in pts})],
     max |-> [i \in 1..3 |-> SetMax({p[i] : p \in pts})]]

\* ------------------------------------------------------------------------
\* transform.py: LinearTransform (3x3) and AffineTransform (4x4)
\* ------------------------------------------------------------------------

\* AffineTransform.__init__ with array=None
AffineTransform == [kind |-> "affine", inner |-> Eye(4)]

\* LinearTransform.__init__ with array=None
LinearTransform == [kind |-> "linear", inner |-> Eye(3)]

Affine(array) == [kind |-> "affine", inner |-> array]

Linear(array) == [kind |-> "linear", inner |-> array]

\* cls(): an instance of the class named cls, built without arguments
New(cls) == IF cls = "linear" THEN LinearTransform ELSE AffineTransform

\* from_linear with a column of ones where the zero translation belongs
from_linear_ones(linear) ==
    Affine([i \in 1..4 |-> [j \in 1..4 |->
        IF i <= 3 /\ j <= 3 THEN linear.inner[i][j]
        ELSE IF j = 4 THEN 1 ELSE 0]])

\* AffineTransform.from_linear: numpy.block([[inner, 0], [0, 1]])
from_linear(linear) ==
    Affine([i \in 1..4 |-> [j \in 1..4 |->
        IF i <= 3 /\ j <= 3 THEN linear.inner[i][j]
        ELSE IF i = 4 /\ j = 4 THEN 1 ELSE 0]])

\* inner[:3, :3]
Block3(inner) == [i \in 1..3 |-> [j \in 1..3 |-> inner[i][j]]]

\* AffineTransform.to_linear / LinearTransform.to_linear
to_linear(self) ==
    IF self.kind = "linear" THEN self ELSE Linear(Block3(self.inner))

\* AffineTransform.det / LinearTransform.det
det(self) == Det3(Block3(self.inner))

\* AffineTransform._translation: inner[:3, -1]
translation(self) == [i \in 1..3 |-> self.inner[i][4]]

\* compose with the matrix product taken in the other order
AffineTransform_compose_reversed(self, other) ==
    IF other.kind = "linear"
    THEN Affine(MatMul(self.inner, from_linear(other).inner))
    ELSE Affine(MatMul(self.inner, other.inner))

\* AffineTransform.compose, with the receiver an AffineTransform proper
RECURSIVE AffineTransform_compose(_, _)
AffineTransform_compose(self, other) ==
    IF other.kind = "linear"
    THEN AffineTransform_compose(self, from_linear(other))
    ELSE Affine(MatMul(other.inner, self.inner))

\* LinearTransform.compose
LinearTransform_compose(self, other) ==
    IF other.kind = "linear"
    THEN Linear(MatMul(other.inner, self.inner))
    ELSE AffineTransform_compose(from_linear(self), other)

\* self.compose(other), dispatched on the receiver's class
compose(self, other) ==
    IF self.kind = "linear" THEN LinearTransform_compose(self, other)
    ELSE AffineTransform_compose(self, other)

\* an operand of transform() or @, with the class isinstance() finds it to be
TransformOperand(t) == [tag |-> "Transform", val |-> t]

Vec3(p) == [tag |-> "Vec3", val |-> p]

BBox(box) == [tag |-> "BBox", val |-> box]

\* the matrix product of transform(): (inner @ pts.T)[:3].T with a 1 appended
\* to the point (affine), (inner @ points.T).T (linear)
apply(self, p) ==
    IF self.kind = "linear" THEN MatVec(self.inner, p)
    ELSE LET r == MatVec(self.inner, <<p[1], p[2], p[3], 1>>)
         IN  <<r[1], r[2], r[3]>>

\* transform that maps only the two defining corners of a box
transform_two_corners(self, points) ==
    IF points.tag = "BBox"
    THEN [min |-> apply(self, points.val.min), max |-> apply(self, points.val.max)]
    ELSE apply(self, points.val)

\* AffineTransform.transform / LinearTransform.transform
transform(self, points) ==
    IF points.tag = "BBox"
    THEN from_pts({ apply(self, c) : c \in corners(points.val) })
    ELSE apply(self, points.val)

\* __matmul__ composing in the order of compose
matmul_self_first(self, other) ==
    IF other.tag = "Transform" THEN compose(self, other.val)
    ELSE transform(self, other)

\* Transform.__matmul__ (and its two overrides, which read the same)
matmul(self, other) ==
    IF other.tag = "Transform" THEN compose(other.val, self)
    ELSE transform(self, other)

\* LinearTransform.inverse
LinearTransform_inverse(self) == Linear(Inv3(self.inner))

\* the binding of a classmethod called on an instance: cls is the receiver's
\* class, and `self = cls() if isinstance(cls, type) else cls` builds a new one
classmethod(recv) == [is_type |-> TRUE, cls |-> recv.kind, inst |-> recv]

SelfOf(bound) == IF bound.is_type THEN New(bound.cls) ELSE bound.inst

\* AffineTransform.translate, called as recv.translate(x, y, z)
translate(recv, x, y, z) ==
    LET self0 == SelfOf(classmethod(recv))
        self  == IF self0.kind = "linear" THEN from_linear(self0) ELSE self0
        add   == <<x, y, z, 0>>
    IN  Affine([i \in 1..4 |-> [j \in 1..4 |->
            IF j = 4 THEN self.inner[i][j] + add[i] ELSE self.inner[i][j]]])

\* LinearTransform.scale, called as recv.scale(x, y, z, all=all)
LinearTransform_scale(recv, x, y, z, all) ==
    LET self == SelfOf(classmethod(recv))
        v    == <<x, y, z>>
        a    == [i \in 1..3 |-> [j \in 1..3 |-> IF i = j THEN all * v[i] ELSE 0]]
    IN  Linear(MatMul(a, self.inner))

\* AffineTransform.scale
AffineTransform_scale(recv, x, y, z, all) ==
    LET self == SelfOf(classmethod(recv))
    IN  compose(self, LinearTransform_scale(LinearTransform, x, y, z, all))

scale(recv, x, y, z, all) ==
    IF recv.kind = "linear" THEN LinearTransform_scale(recv, x, y, z, all)
    ELSE AffineTransform_scale(recv, x, y, z, all)

\* LinearTransform.rotate, theta in quarter turns
LinearTransform_rotate(recv, v0, theta) ==
    LET self == SelfOf(classmethod(recv))
        v    == Normalized(v0)
        w    == << <<0, -v[3], v[2]>>, <<v[3], 0, -v[1]>>, <<-v[2], v[1], 0>> >>
        a    == MatAdd(MatAdd(Eye(3), MatScale(Sin(theta), w)),
                       MatMul(MatScale(TwoSinSqHalf(theta), w), w))
    IN  Linear(MatMul(a, self.inner))

\* AffineTransform.rotate
AffineTransform_rotate(recv, v, theta) ==
    LET self == SelfOf(classmethod(recv))
    IN  compose(self, LinearTransform_rotate(LinearTransform, v, theta))

rotate(recv, v, theta) ==
    IF recv.kind = "linear" THEN LinearTransform_rotate(recv, v, theta)
    ELSE AffineTransform_rotate(recv, v, theta)

\* LinearTransform.rotate_euler, angles in quarter turns
LinearTransform_rotate_euler(recv, x, y, z) ==
    LET self == SelfOf(classmethod(recv))
        c    == <<Cos(x), Cos(y), Cos(z)>>
        s    == <<Sin(x), Sin(y), Sin(z)>>
        a    == << <<c[2]*c[3], s[1]*s[2]*c[3] - c[1]*s[3], c[1]*s[2]*c[3] + s[1]*s[3]>>,
                   <<c[2]*s[3], s[1]*s[2]*s[3] + c[1]*c[3], c[1]*s[2]*s[3] - s[1]*c[3]>>,
                   <<-s[2],     s[1]*c[2],                  c[1]*c[2]>> >>
    IN  Linear(MatMul(a, self.inner))

\* AffineTransform.rotate_euler
AffineTransform_rotate_euler(recv, x, y, z) ==
    LET self == SelfOf(classmethod(recv))
    IN  compose(self, LinearTransform_rotate_euler(LinearTransform, x, y, z))

rotate_euler(recv, x, y, z) ==
    IF recv.kind = "linear" THEN LinearTransform_rotate_euler(recv, x, y, z)
    ELSE AffineTransform_rotate_euler(recv, x, y, z)

\* LinearTransform.mirror
LinearTransform_mirror(recv, v0) ==
    LET self == SelfOf(classmethod(recv))
        v    == Normalized(v0)
        m    == MatAdd(Eye(3), MatScale(-2, Outer(v, v)))
    IN  Linear(MatMul(m, self.inner))

\* AffineTransform.mirror
AffineTransform_mirror(recv, v) ==
    LET self == SelfOf(classmethod(recv))
    IN  compose(self, LinearTransform_mirror(LinearTransform, v))

mirror(recv, v) ==
    IF recv.kind = "linear" THEN LinearTransform_mirror(recv, v)
    ELSE AffineTransform_mirror(recv, v)

\* inverse that negates the translation without mapping it by the inverse
AffineTransform_inverse_negated(self) ==
    LET linear_inv == LinearTransform_inverse(Linear(Block3(self.inner)))
        t  == translation(self)
    IN  compose(linear_inv, translate(AffineTransform, -t[1], -t[2], -t[3]))

\* AffineTransform.inverse
AffineTransform_inverse(self) ==
    LET linear_inv == LinearTransform_inverse(Linear(Block3(self.inner)))
        t  == translation(self)
        nt == matmul(linear_inv, Vec3(<<-t[1], -t[2], -t[3]>>))
    IN  compose(linear_inv, translate(AffineTransform, nt[1], nt[2], nt[3]))

inverse(self) ==
    IF self.kind = "linear" THEN LinearTransform_inverse(self)
    ELSE AffineTransform_inverse(self)

\* ------------------------------------------------------------------------
\* cell.py.  Lengths, matrix entries, sines and cosines are fixed-point
\* numbers with three decimal digits (One stands for 1.0), products and
\* quotients rounded to the nearest.  Angles are measured in units of
\* pi/(6 One); the angles given to cell_to_ortho are multiples of pi/6, whose
\* sines and cosines are tabulated.
\* ------------------------------------------------------------------------

One == 10 * 10 * 10

Pi == 6 * One

\* the fixed-point product and quotient, rounded to the nearest
FMul(x, y) == Quot(2 * x * y + Sgn(x * y) * One, 2 * One)

FDiv(x, y) == Quot(2 * x * One + Sgn(x) * Abs(y), 2 * Abs(y)) * Sgn(y)

\* the integer square root, by Newton's iteration from above
RECURSIVE NewtonSqrt(_, _)
NewtonSqrt(n, r) ==
    LET r2 == (r + n \div r) \div 2
    IN  IF r2 >= r THEN r ELSE NewtonSqrt(n, r2)

ISqrt(n) == IF n = 0 THEN 0 ELSE NewtonSqrt(n, n)

\* the nearest integer to the square root
RoundSqrt(n) ==
    LET r == ISqrt(n)
    IN  IF n - r * r > r THEN r + 1 ELSE r

CosTable == <<1000, 866, 500, 0, -500, -866, -1000>>

SinTable == <<0, 500, 866, 1000, 866, 500, 0>>

\* numpy.cos, numpy.sin of a multiple of pi/6 in [0, pi]
cos(angle) == CosTable[(angle \div One) + 1]

sin(angle) == SinTable[(angle \div One) + 1]

\* numpy.arccos of a cosine in [-1, 1], interpolated in the table
arccos(x) ==
    LET k == CHOOSE i \in 1..6 : CosTable[i] >= x /\ x >= CosTable[i + 1]
    IN  (k - 1) * One + Quot(2 * (CosTable[k] - x) * One + (CosTable[k] - CosTable[k + 1]),
                             2 * (CosTable[k] - CosTable[k + 1]))

\* a value that is not a number
NaN == [nan |-> TRUE, val |-> 0]

Num(x) == [nan |-> FALSE, val |-> x]

\* what a function returns or raises
Returned(v) == [status |-> "ok", val |-> v]

Raised(e) == [status |-> e, val |-> <<>>]

\* _validate_cell_size: None passes, a zero dimension raises
validate_cell_size(cell_size) ==
    IF cell_size = <<>> THEN Returned(cell_size)
    ELSE IF \E i \in 1..3 : cell_size[i] = 0 THEN Raised("ValueError")
    ELSE Returned(cell_size)

\* _validate_cell_angle
validate_cell_angle(cell_angle) ==
    IF cell_angle = <<>> THEN Returned(<<Pi \div 2, Pi \div 2, Pi \div 2>>)
    ELSE IF \/ \E i \in 1..3 : cell_angle[i] < 0
            \/ \E i \in 1..3 : cell_angle[i] > Pi
            \/ cell_angle[1] + cell_angle[2] + cell_angle[3] > 2 * Pi
         THEN Raised("ValueError")
    ELSE Returned(cell_angle)

\* the cosine of alphastar before arccos, lines 49-50 of cell_to_ortho:
\* (cos(beta) cos(gamma) - cos(alpha)) / (sin(beta) sin(gamma))
alphastar_num(angle) == FMul(cos(angle[2]), cos(angle[3])) - cos(angle[1])

alphastar_den(angle) == FMul(sin(angle[2]), sin(angle[3]))

\* Whether the floating-point rounding decides alphastar: the quotient is
\* within a unit of 1 or -1, or it is 0/0 with a sine of pi, which is not
\* exactly zero in floating point.  With beta = gamma = pi/2 the quotient is
\* -cos(alpha) to the last bit, and rounding decides nothing.
RoundingDecides(angle) ==
    IF angle[2] = Pi \div 2 /\ angle[3] = Pi \div 2 THEN FALSE
    ELSE IF alphastar_den(angle) = 0
    THEN alphastar_num(angle) = 0 /\ angle[2] # 0 /\ angle[3] # 0
    ELSE Abs(Abs(FDiv(alphastar_num(angle), alphastar_den(angle))) - One) <= 1

\* the outcomes the rounding can produce
Roundings(angle) ==
    IF ~RoundingDecides(angle) THEN {"exact"}
    ELSE IF alphastar_den(angle) = 0 THEN {"nan", "minus_one", "zero", "one"}
    ELSE {"nan", "clamped"}

\* cos(alphastar), or NaN when arccos is given a value outside of [-1, 1]
cos_alphastar(angle, rounding) ==
    LET num == alphastar_num(angle)
        den == alphastar_den(angle)
    IN  CASE rounding = "nan"       -> NaN
          [] rounding = "minus_one" -> Num(-One)
          [] rounding = "zero"      -> Num(0)
          [] rounding = "one"       -> Num(One)
          [] rounding = "clamped"   -> Num(Sgn(FDiv(num, den)) * One)
          [] rounding = "exact"     ->
                IF den = 0 THEN NaN
                ELSE IF Abs(FDiv(num, den)) > One THEN NaN
                ELSE Num(FDiv(num, den))

\* sin(arccos(x)) for a cosine x
sin_of_cos(x) == RoundSqrt(One * One - x * x)

\* numpy.allclose(cell_angle, pi/2)
all_right_angles(angle) == \A i \in 1..3 : angle[i] = Pi \div 2

\* cell_to_ortho
cell_to_ortho(cell_angle, cell_size, rounding) ==
    LET vsize  == validate_cell_size(cell_size)
        vangle == validate_cell_angle(cell_angle)
        abc    == IF cell_size = <<>> THEN <<One, One, One>> ELSE cell_size
        a      == abc[1]
        b      == abc[2]
        c      == abc[3]
        angle  == vangle.val
    IN  IF vsize.status # "ok" THEN vsize
        ELSE IF vangle.status # "ok" THEN vangle
        ELSE IF all_right_angles(angle)
             THEN Returned(LinearTransform_scale(LinearTransform, a, b, c, 1))
        ELSE LET cstar == cos_alphastar(angle, rounding)
                 beta  == angle[2]
                 gamma == angle[3]
             IN  IF cstar.nan THEN Raised("AssertionError")
                 ELSE Returned(Linear(<<
                    <<a, FMul(b, cos(gamma)), FMul(c, cos(beta))>>,
                    <<0, FMul(b, sin(gamma)), -FMul(FMul(c, sin(beta)), cstar.val)>>,
                    <<0, 0, FMul(FMul(c, sin(beta)), sin_of_cos(cstar.val))>> >>))

\* numpy.linalg.norm(inner, axis=-2): the norms of the columns
column_norm(inner, j) ==
    RoundSqrt(inner[1][j] * inner[1][j] + inner[2][j] * inner[2][j]
              + inner[3][j] * inner[3][j])

\* numpy.dot of columns i and j of the normed matrix
normed_dot(normed, i, j) ==
    FMul(normed[1][i], normed[1][j]) + FMul(normed[2][i], normed[2][j])
        + FMul(normed[3][i], normed[3][j])

\* numpy.arccos of the cosines: not a number outside of [-1, 1]; the
\* comparisons of _validate_cell_angle are all false of a NaN
arccos_all(cosines) ==
    [i \in 1..3 |-> IF Abs(cosines[i]) > One THEN NaN ELSE Num(arccos(cosines[i]))]

validate_arccos_angle(angle) ==
    IF \/ \E i \in 1..3 : ~angle[i].nan /\ (angle[i].val < 0 \/ angle[i].val > Pi)
       \/ /\ \A i \in 1..3 : ~angle[i].nan
          /\ angle[1].val + angle[2].val + angle[3].val > 2 * Pi
    THEN Raised("ValueError")
    ELSE Returned(angle)

\* ortho_to_cell with alpha taken from columns 0 and 1, gamma from 1 and 2
ortho_to_cell_swapped(ortho) ==
    LET cell_size == [j \in 1..3 |-> column_norm(ortho.inner, j)]
        vsize     == validate_cell_size(cell_size)
        normed    == [i \in 1..3 |-> [j \in 1..3 |-> FDiv(ortho.inner[i][j], cell_size[j])]]
        cosines   == << normed_dot(normed, 1, 2),
                        normed_dot(normed, 3, 1),
                        normed_dot(normed, 2, 3) >>
        vangle    == validate_arccos_angle(arccos_all(cosines))
    IN  IF vsize.status # "ok" THEN vsize
        ELSE IF vangle.status # "ok" THEN vangle
        ELSE Returned([cell_angle |-> vangle.val, cell_size |-> cell_size])

\* ortho_to_cell
ortho_to_cell(ortho) ==
    LET cell_size == [j \in 1..3 |-> column_norm(ortho.inner, j)]
        vsize     == validate_cell_size(cell_size)
        normed    == [i \in 1..3 |-> [j \in 1..3 |-> FDiv(ortho.inner[i][j], cell_size[j])]]
        cosines   == << normed_dot(normed, 2, 3),
                        normed_dot(normed, 3, 1),
                        normed_dot(normed, 1, 2) >>
        vangle    == validate_arccos_angle(arccos_all(cosines))
    IN  IF vsize.status # "ok" THEN vsize
        ELSE IF vangle.status # "ok" THEN vangle
        ELSE Returned([cell_angle |-> vangle.val, cell_size |-> cell_size])


\* ------------------------------------------------------------------------
\* The transform algebra as a state machine: two transform registers, ta
\* (the receiver of every call) and tb (the argument), and the record res
\* of the last call: its name, its receiver, its argument and what it
\* returned.
\* ------------------------------------------------------------------------

\* a shear, and an affine transform with a shear and a translation, given
\* to the constructors as arrays
ShearArray == << <<1, 1, 0>>, <<0, 1, 0>>, <<0, 0, 1>> >>

ShearAffineArray == << <<1, 0, 2, 1>>, <<0, 1, 0, -2>>, <<0, 0, 1, 3>>, <<0, 0, 0, 1>> >>

InitTransforms == { Linear(ShearArray), Affine(ShearAffineArray) }

\* the arguments the builders are called with
TranslateArgs == { <<0, 2, -1>> }

ScaleArgs == { <<2, 1, 1, 1>>, <<1, -1, 3, -1>> }

RotateArgs == { <<<<0, 0, 1>>, 1>>, <<<<2, 0, 0>>, 3>> }

EulerArgs == { <<1, 1, 0>> }

MirrorArgs == { <<0, 0, -3>> }

\* the points and boxes transforms are applied to
Points == { <<-1, 2, 3>> }

Boxes == { [min |-> <<-1, 0, 0>>, max |-> <<1, 2, 3>>] }

PtsOperands == { Vec3(p) : p \in Points } \cup { BBox(b) : b \in Boxes }

\* the origin and the unit points fix an affine map; one more point
Probe == { <<0, 0, 0>>, <<1, 0, 0>>, <<0, 1, 0>>, <<0, 0, 1>>, <<1, 2, 3>> }

NoCall == [op |-> "none", a |-> LinearTransform, other |-> <<>>, out |-> <<>>]

Call(op, a, other, out) == [op |-> op, a |-> a, other |-> other, out |-> out]

TIdle == ta = LinearTransform /\ tb = LinearTransform /\ ncomp = 0 /\ res = NoCall

TInit == ta \in InitTransforms /\ tb = LinearTransform /\ ncomp = 0 /\ res = NoCall

\* tb = ta.translate(x, y, z)
Translate ==
    \E a \in TranslateArgs :
        /\ tb' = translate(ta, a[1], a[2], a[3])
        /\ res' = Call("translate", ta, a, tb')
        /\ UNCHANGED <<ta, ncomp, cell, frame, fres, dd, heap, hres>>

\* tb = ta.scale(x, y, z, all=all)
Scale ==
    \E a \in ScaleArgs :
        /\ tb' = scale(ta, a[1], a[2], a[3], a[4])
        /\ res' = Call("scale", ta, a, tb')
        /\ UNCHANGED <<ta, ncomp, cell, frame, fres, dd, heap, hres>>

\* tb = ta.rotate(v, theta)
Rotate ==
    \E a \in RotateArgs :
        /\ tb' = rotate(ta, a[1], a[2])
        /\ res' = Call("rotate", ta, a, tb')
        /\ UNCHANGED <<ta, ncomp, cell, frame, fres, dd, heap, hres>>

\* tb = ta.rotate_euler(x, y, z)
RotateEuler ==
    \E a \in EulerArgs :
        /\ tb' = rotate_euler(ta, a[1], a[2], a[3])
        /\ res' = Call("rotate_euler", ta, a, tb')
        /\ UNCHANGED <<ta, ncomp, cell, frame, fres, dd, heap, hres>>

\* tb = ta.mirror(v)
Mirror ==
    \E a \in MirrorArgs :
        /\ tb' = mirror(ta, a)
        /\ res' = Call("mirror", ta, a, tb')
        /\ UNCHANGED <<ta, ncomp, cell, frame, fres, dd, heap, hres>>

\* ta = ta.compose(tb)
Compose ==
    /\ ncomp < MaxCompose
    /\ ta' = compose(ta, tb)
    /\ ncomp' = ncomp + 1
    /\ res' = Call("compose", ta, TransformOperand(tb), ta')
    /\ UNCHANGED <<tb, cell, frame, fres, dd, heap, hres>>

\* ta @ tb, ta @ point, ta @ box
Matmul ==
    \E other \in {TransformOperand(tb)} \cup PtsOperands :
        /\ res' = Call("matmul", ta, other, matmul(ta, other))
        /\ UNCHANGED <<ta, tb, ncomp, cell, frame, fres, dd, heap, hres>>

\* tb = tb.to_linear()
ToLinear ==
    /\ tb.kind = "affine"
    /\ tb' = to_linear(tb)
    /\ res' = Call("to_linear", tb, <<>>, tb')
    /\ UNCHANGED <<ta, ncomp, cell, frame, fres, dd, heap, hres>>

\* ta.transform(points)
Transform ==
    \E points \in PtsOperands :
        /\ res' = Call("transform", ta, points, transform(ta, points))
        /\ UNCHANGED <<ta, tb, ncomp, cell, frame, fres, dd, heap, hres>>

\* ta.inverse(); numpy.linalg.inv raises on a singular matrix
Inverse ==
    /\ InvExact(Block3(ta.inner))
    /\ res' = Call("inverse", ta, <<>>, inverse(ta))
    /\ UNCHANGED <<ta, tb, ncomp, cell, frame, fres, dd, heap, hres>>

\* ------------------------------------------------------------------------
\* frame.py: AtomFrame.  A collection is a record of its columns, df (a
\* function from the column names to equally long sequences), and of its
\* bounding-box memo, bbox.  Coordinates are integers.
\* ------------------------------------------------------------------------

\* how many rows a collection has at most
MaxRows == 4

None == [kind |-> "none"]

Mask(m) == [kind |-> "mask", val |-> m]

Scalar(v) == [kind |-> "scalar", val |-> v]

Array(a) == [kind |-> "array", val |-> a]

\* len(self)
NumRows(df) == Len(df["x"])

\* polars.DataFrame.with_columns: the named columns replaced or added
df_with_columns(df, new) ==
    [c \in DOMAIN df \cup DOMAIN new |-> IF c \in DOMAIN new THEN new[c] ELSE df[c]]

\* the symbols in the byte order polars sorts strings in
SymbolOrder == <<"Ag", "Ag+", "H", "Na">>

SymbolRank(sym) == CHOOSE i \in 1..Len(SymbolOrder) : SymbolOrder[i] = sym

\* elem.py is not part of the sources: get_elem and get_sym for the symbols
\* above, as the tests of elem.py have them (a charge is dropped)
get_elem(sym) ==
    CASE sym \in {"Ag", "Ag+"} -> 47
      [] sym = "H"  -> 1
      [] sym = "Na" -> 11

get_sym(elem) ==
    CASE elem = 47 -> "Ag"
      [] elem = 1  -> "H"
      [] elem = 11 -> "Na"

\* AtomFrame._validate_atoms
RequiredColumns == {"x", "y", "z", "elem", "symbol"}

validate_atoms(df) ==
    IF RequiredColumns \subseteq DOMAIN df THEN Returned(df) ELSE Raised("ValueError")

\* AtomFrame.__new__ and __init__ given a DataFrame; the casts to the
\* standard dtypes leave the values of this model as they are
AtomFrame_new(df, unchecked) ==
    IF unchecked THEN Returned([df |-> df, bbox |-> None])
    ELSE LET missing == {"symbol", "elem"} \ DOMAIN df
             obj == IF missing = {"symbol"}
                    THEN df_with_columns(df,
                            [c \in {"symbol"} |-> [i \in 1..Len(df["elem"]) |-> get_sym(df["elem"][i])]])
                    ELSE IF missing = {"elem"}
                    THEN df_with_columns(df,
                            [c \in {"elem"} |-> [i \in 1..Len(df["symbol"]) |-> get_elem(df["symbol"][i])]])
                    ELSE df
         IN  IF Cardinality(missing) > 1 THEN Raised("ValueError")
             ELSE IF validate_atoms(obj).status # "ok" THEN Raised("ValueError")
             ELSE Returned([df |-> obj, bbox |-> None])

\* a with_columns whose result takes the bounding box memo of the receiver
with_columns_keeping_bbox(self, new) ==
    [df |-> df_with_columns(self.df, new), bbox |-> self.bbox]

\* AtomFrame.with_column / with_columns: AtomFrame(..., _unchecked=True)
with_columns(self, new) == AtomFrame_new(df_with_columns(self.df, new), TRUE).val

\* AtomFrame.coords(): the (N, 3) array of the coordinates
coords(self) ==
    [i \in 1..NumRows(self.df) |-> <<self.df["x"][i], self.df["y"][i], self.df["z"][i]>>]

\* _selection_to_series(...).to_numpy(): numpy.broadcast_to(selection, len(df))
selection_to_series(self, selection) ==
    IF selection.kind = "scalar"
    THEN Returned([i \in 1..NumRows(self.df) |-> selection.val])
    ELSE IF Len(selection.val) = NumRows(self.df) THEN Returned(selection.val)
    ELSE Raised("ValueError")

\* how many of the rows 1..i the mask selects
RECURSIVE CountTo(_, _)
CountTo(mask, i) ==
    IF i = 0 THEN 0 ELSE CountTo(mask, i - 1) + (IF mask[i] THEN 1 ELSE 0)

\* new_pts[selection] = pts: the selected rows take the rows of pts in
\* order, one row of pts is broadcast, any other shape raises
masked_assign(new_pts, mask, pts) ==
    LET m == CountTo(mask, Len(mask))
    IN  IF Len(pts) = m
        THEN Returned([i \in 1..Len(new_pts) |->
                IF mask[i] THEN pts[CountTo(mask, i)] ELSE new_pts[i]])
        ELSE IF Len(pts) = 1
        THEN Returned([i \in 1..Len(new_pts) |-> IF mask[i] THEN pts[1] ELSE new_pts[i]])
        ELSE Raised("ValueError")

\* numpy.broadcast_to(pts, (n, 3))
broadcast_rows(pts, n) ==
    IF Len(pts) = n THEN Returned(pts)
    ELSE IF Len(pts) = 1 THEN Returned([i \in 1..n |-> pts[1]])
    ELSE Raised("ValueError")

\* the x, y, z columns of an (N, 3) array
xyz_columns(pts) ==
    [c \in {"x", "y", "z"} |->
        [i \in 1..Len(pts) |-> pts[i][IF c = "x" THEN 1 ELSE IF c = "y" THEN 2 ELSE 3]]]

\* with_coords that starts from zeros instead of the receiver's coordinates
with_coords_from_zeros(self, pts, selection) ==
    LET n   == NumRows(self.df)
        sel == IF selection.kind = "none" THEN Returned(<<>>)
               ELSE selection_to_series(self, selection)
        assigned == IF selection.kind = "none" THEN Returned(pts)
                    ELSE masked_assign([i \in 1..n |-> <<0, 0, 0>>], sel.val, pts)
    IN  IF sel.status # "ok" THEN sel
        ELSE IF assigned.status # "ok" THEN assigned
        ELSE IF broadcast_rows(assigned.val, n).status # "ok" THEN Raised("ValueError")
        ELSE AtomFrame_new(
                with_columns(self, xyz_columns(broadcast_rows(assigned.val, n).val)).df, FALSE)

\* AtomFrame.with_coords
with_coords(self, pts, selection) ==
    LET n   == NumRows(self.df)
        sel == IF selection.kind = "none" THEN Returned(<<>>)
               ELSE selection_to_series(self, selection)
        assigned == IF selection.kind = "none" THEN Returned(pts)
                    ELSE masked_assign(coords(self), sel.val, pts)
    IN  IF sel.status # "ok" THEN sel
        ELSE IF assigned.status # "ok" THEN assigned
        ELSE IF broadcast_rows(assigned.val, n).status # "ok" THEN Raised("ValueError")
        ELSE AtomFrame_new(
                with_columns(self, xyz_columns(broadcast_rows(assigned.val, n).val)).df, FALSE)

\* the (elem, symbol) pair of row i
ElemSymbol(df, i) == [elem |-> df["elem"][i], symbol |-> df["symbol"][i]]

\* self.unique(subset=['elem', 'symbol']): the distinct pairs
unique_elem_symbol(df) == { ElemSymbol(df, i) : i \in 1..NumRows(df) }

\* the order of sort(['elem', 'symbol'])
PairLess(p, q) ==
    \/ p.elem < q.elem
    \/ p.elem = q.elem /\ SymbolRank(p.symbol) < SymbolRank(q.symbol)

\* the order of a sort by the symbol alone
SymbolLess(p, q) ==
    \/ SymbolRank(p.symbol) < SymbolRank(q.symbol)
    \/ p.symbol = q.symbol /\ p.elem < q.elem

RECURSIVE sort_by_symbol(_)
sort_by_symbol(pairs) ==
    IF pairs = {} THEN <<>>
    ELSE LET first == CHOOSE p \in pairs : \A q \in pairs \ {p} : SymbolLess(p, q)
         IN  <<first>> \o sort_by_symbol(pairs \ {first})

\* .sort(['elem', 'symbol']) of the distinct pairs
RECURSIVE sort_elem_symbol(_)
sort_elem_symbol(pairs) ==
    IF pairs = {} THEN <<>>
    ELSE LET first == CHOOSE p \in pairs : \A q \in pairs \ {p} : PairLess(p, q)
         IN  <<first>> \o sort_elem_symbol(pairs \ {first})

\* the loop of with_type: for the i-th pair, in order, the rows of that elem
\* and symbol take the type i + 1 (i from 0), the others keep theirs
RECURSIVE assign_types(_, _, _, _)
assign_types(df, types, unique, i) ==
    IF i > Len(unique) THEN types
    ELSE assign_types(df,
            [r \in 1..Len(types) |->
                IF df["elem"][r] = unique[i].elem /\ df["symbol"][r] = unique[i].symbol
                THEN i ELSE types[r]],
            unique, i + 1)

\* a with_column that cuts a longer array to the n rows and repeats the last
\* value of a shorter one
values_to_column_fitted(values, n) ==
    IF values.kind = "scalar" THEN Returned([i \in 1..n |-> values.val])
    ELSE Returned([i \in 1..n |->
            values.val[IF i <= Len(values.val) THEN i ELSE Len(values.val)]])

\* _values_to_expr laid over the n rows by with_column: a scalar and an
\* array of one value (arr.size > 1 is false) are literals and broadcast, a
\* longer array is a Series, refused where its length is not n
values_to_column(values, n) ==
    IF values.kind = "scalar" THEN Returned([i \in 1..n |-> values.val])
    ELSE IF Len(values.val) = n THEN Returned(values.val)
    ELSE IF Len(values.val) = 1 THEN Returned([i \in 1..n |-> values.val[1]])
    ELSE Raised("ValueError")

\* AtomFrame.with_type
with_type(self, types) ==
    LET n == NumRows(self.df)
    IN  IF types.kind # "none"
        THEN IF values_to_column(types, n).status # "ok" THEN Raised("ValueError")
             ELSE Returned(with_columns(self,
                    [c \in {"type"} |-> values_to_column(types, n).val]))
        ELSE IF "type" \in DOMAIN self.df THEN Returned(self)
        ELSE LET unique == sort_elem_symbol(unique_elem_symbol(self.df))
                 zeros  == [r \in 1..n |-> 0]
                 new    == assign_types(self.df, zeros, unique, 1)
             IN  IF \E r \in 1..n : new[r] = 0 THEN Raised("AssertionError")
                 ELSE Returned(with_columns(self, [c \in {"type"} |-> new]))

\* AtomFrame.empty()
FrameIdle ==
    [df |-> [c \in RequiredColumns |-> <<>>], bbox |-> None]

FNoCall == [op |-> "none", self |-> FrameIdle, args |-> <<>>, out |-> Raised("none")]

\* ------------------------------------------------------------------------
\* frame.py: AtomFrame.deduplicate.  The rows are numbered from 1 and the
\* labels start as the rows' own numbers; the tolerance is an integer and
\* two rows are a pair when their squared distance is tolerance^2 at most.
\* ------------------------------------------------------------------------

\* cols.intersection(('x', 'y', 'z'))
spatial_cols(cols) == cols \cap {"x", "y", "z"}

\* the squared Euclidean distance of rows i and j over the spatial columns
SqDist(df, spatial, i, j) ==
    (IF "x" \in spatial THEN (df["x"][i] - df["x"][j]) * (df["x"][i] - df["x"][j]) ELSE 0)
  + (IF "y" \in spatial THEN (df["y"][i] - df["y"][j]) * (df["y"][i] - df["y"][j]) ELSE 0)
  + (IF "z" \in spatial THEN (df["z"][i] - df["z"][j]) * (df["z"][i] - df["z"][j]) ELSE 0)

\* tree.query_pairs(tolerance, 2.): the set of the pairs (i, j), i < j, of
\* rows at a distance of tolerance at most, in the 2-norm
query_pairs(df, spatial, tolerance) ==
    { pair \in (1..NumRows(df)) \X (1..NumRows(df)) :
        /\ pair[1] < pair[2]
        /\ SqDist(df, spatial, pair[1], pair[2]) <= tolerance * tolerance }

\* a loop body that gives both rows the larger of the two labels
merge_pair_max(indices, changed, i, j) ==
    LET i_i == indices[i]
        i_j == indices[j]
        m   == IF i_i >= i_j THEN i_i ELSE i_j
    IN  IF i_i # i_j
        THEN [indices |-> [indices EXCEPT ![i] = m, ![j] = m], changed |-> TRUE]
        ELSE [indices |-> indices, changed |-> changed]

\* the body of the for loop for the pair (i, j): [indices, changed]
merge_pair(indices, changed, i, j) ==
    LET i_i == indices[i]
        i_j == indices[j]
        m   == IF i_i <= i_j THEN i_i ELSE i_j
    IN  IF i_i # i_j
        THEN [indices |-> [indices EXCEPT ![i] = m, ![j] = m], changed |-> TRUE]
        ELSE [indices |-> indices, changed |-> changed]

\* the key unique() compares: the label and the values of the columns left
unique_key(df, cols, indices, r) == <<indices[r], [c \in cols |-> df[c][r]]>>

\* the rows of a column that keep marks, in order
RECURSIVE select_rows(_, _, _)
select_rows(col, keep, i) ==
    IF i > Len(col) THEN <<>>
    ELSE (IF keep[i] THEN <<col[i]>> ELSE <<>>) \o select_rows(col, keep, i + 1)

\* a unique() that hands its rows back last row first
unique_reversed(df, cols, indices) ==
    LET keep == [r \in 1..NumRows(df) |->
                    \A q \in 1..(r - 1) :
                        unique_key(df, cols, indices, q) # unique_key(df, cols, indices, r)]
        n    == Len(select_rows(df["x"], keep, 1))
    IN  [c \in DOMAIN df |->
            [k \in 1..n |-> select_rows(df[c], keep, 1)[n + 1 - k]]]

\* a unique() that keeps the last row of every key
unique_keep_last(df, cols, indices) ==
    LET keep == [r \in 1..NumRows(df) |->
                    \A q \in (r + 1)..NumRows(df) :
                        unique_key(df, cols, indices, q) # unique_key(df, cols, indices, r)]
    IN  [c \in DOMAIN df |-> select_rows(df[c], keep, 1)]

\* .unique(subset): the first row of every key, in the order of the rows
unique(df, cols, indices) ==
    LET keep == [r \in 1..NumRows(df) |->
                    \A q \in 1..(r - 1) :
                        unique_key(df, cols, indices, q) # unique_key(df, cols, indices, r)]
    IN  [c \in DOMAIN df |-> select_rows(df[c], keep, 1)]

\* the last three statements of deduplicate: the labels become the column
\* _unique_pts, one row is kept for each key, the column is dropped again
dedup_result(self, cols, indices) ==
    [df |-> unique(self.df, cols \ {"x", "y", "z"}, indices), bbox |-> None]

\* ------------------------------------------------------------------------
\* frame.py: with_index, with_velocity, transform, round_near_zero, bbox
\* ------------------------------------------------------------------------

\* AtomFrame.with_index
with_index(self, index) ==
    LET n == NumRows(self.df)
        values == IF index.kind = "none" THEN Array([r \in 1..n |-> r - 1]) ELSE index
    IN  IF index.kind = "none" /\ "i" \in DOMAIN self.df THEN Returned(self)
        ELSE IF values_to_column(values, n).status # "ok" THEN Raised("ValueError")
        ELSE Returned(with_columns(self, [c \in {"i"} |-> values_to_column(values, n).val]))

VelocityColumns == {"v_x", "v_y", "v_z"}

\* all(col in self for col in ('v_x', 'v_y', 'v_z'))
has_velocities(self) == VelocityColumns \subseteq DOMAIN self.df

\* the rows of a boolean mask that are true, of the rows given
filter_rows(rows, mask) == select_rows(rows, mask, 1)

\* AtomFrame.coords(selection)
coords_of(self, selection) ==
    IF selection.kind = "none" THEN coords(self)
    ELSE filter_rows(coords(self), selection.val)

\* AtomFrame.velocities(selection): None where a velocity column is missing
velocities(self, selection) ==
    IF ~has_velocities(self) THEN None
    ELSE LET all == [i \in 1..NumRows(self.df) |->
                        <<self.df["v_x"][i], self.df["v_y"][i], self.df["v_z"][i]>>]
         IN  Array(IF selection.kind = "none" THEN all ELSE filter_rows(all, selection.val))

\* the v_x, v_y, v_z columns of an (N, 3) array
velocity_columns(pts) ==
    [c \in VelocityColumns |->
        [i \in 1..Len(pts) |-> pts[i][IF c = "v_x" THEN 1 ELSE IF c = "v_y" THEN 2 ELSE 3]]]

\* what Series.set_at_idx does with a boolean Series for the indices is
\* polars' affair: it takes the Series as a mask (row r takes values[r]), or
\* casts it to the indices 0 and 1 (values[k] goes to row 0 or row 1, in
\* turn), or refuses it
SetAtIdxModes == {"mask", "positions", "error"}

set_at_idx(col, mask, values, mode) ==
    LET n == Len(col)
        last(b) == CHOOSE k \in 1..n : mask[k] = b /\ \A q \in (k + 1)..n : mask[q] # b
        has(b)  == \E k \in 1..n : mask[k] = b
    IN  IF mode = "error" THEN Raised("TypeError")
        ELSE IF mode = "mask"
        THEN Returned([r \in 1..n |-> IF mask[r] THEN values[r] ELSE col[r]])
        ELSE IF has(TRUE) /\ n < 2 THEN Raised("IndexError")
        ELSE Returned([r \in 1..n |->
                IF r = 1 /\ has(FALSE) THEN values[last(FALSE)]
                ELSE IF r = 2 /\ has(TRUE) THEN values[last(TRUE)]
                ELSE col[r]])

\* AtomFrame.with_velocity
with_velocity(self, pts, selection, mode) ==
    LET n == NumRows(self.df)
        b == IF pts.kind = "none" THEN Returned([i \in 1..n |-> <<0, 0, 0>>])
             ELSE broadcast_rows(pts.val, n)
        sel == selection_to_series(self, selection)
        set(c) == set_at_idx(self.df[c], sel.val, velocity_columns(b.val)[c], mode)
    IN  IF pts.kind = "none" /\ has_velocities(self) THEN Returned(self)
        ELSE IF b.status # "ok" THEN b
        ELSE IF selection.kind = "none"
        THEN AtomFrame_new(with_columns(self, velocity_columns(b.val)).df, FALSE)
        ELSE IF sel.status # "ok" THEN sel
        ELSE IF ~has_velocities(self) THEN Raised("NotFoundError")
        ELSE IF set("v_x").status # "ok" THEN set("v_x")
        ELSE AtomFrame_new(
                with_columns(self, [c \in VelocityColumns |-> set(c).val]).df, FALSE)

\* transform.py in the sources has neither Transform.make nor transform_vec:
\* make hands a transform back as it is, transform_vec applies the linear
\* part of the transform, without the translation, to every row
make(t) == t

transform_vec(t, vecs) == [i \in 1..Len(vecs) |-> apply(to_linear(t), vecs[i])]

\* Transform.__matmul__ with an (N, 3) array: transform() of every row
matmul_rows(t, rows) == [i \in 1..Len(rows) |-> matmul(t, Vec3(rows[i]))]

\* AtomFrame.transform
AtomFrame_transform(self, t, selection, transform_velocities, mode) ==
    LET sel == IF selection.kind = "none" THEN Returned(None)
               ELSE IF selection_to_series(self, selection).status # "ok"
               THEN selection_to_series(self, selection)
               ELSE Returned(Mask(selection_to_series(self, selection).val))
        transformed == with_coords(self, matmul_rows(make(make(t)),
                                                     coords_of(self, sel.val)), sel.val)
        vel == velocities(self, sel.val)
    IN  IF sel.status # "ok" THEN sel
        ELSE IF transformed.status # "ok" THEN transformed
        ELSE IF transform_velocities /\ vel.kind # "none"
        THEN with_velocity(transformed.val, Array(transform_vec(make(t), vel.val)),
                           sel.val, mode)
        ELSE transformed

\* AtomFrame.round_near_zero: abs(col) >= tolerance keeps the value
round_near_zero(self, tolerance) ==
    with_columns(self,
        [c \in {"x", "y", "z"} |->
            [i \in 1..NumRows(self.df) |->
                IF Abs(self.df[c][i]) >= tolerance THEN self.df[c][i] ELSE 0]])

\* the bbox property: [the instance after the read, the box returned]
bbox(self) ==
    LET box == IF self.bbox = None
               THEN from_pts({ coords(self)[i] : i \in 1..NumRows(self.df) })
               ELSE self.bbox
    IN  [self |-> [self EXCEPT !.bbox = box], out |-> box]

\* the state of a call of deduplicate: where it is (pc), the labels, the
\* labels when the pass began, the pairs the pass has yet to visit, how
\* many passes are through
DedupIdle ==
    [pc |-> "idle", round |-> 0, tolerance |-> 0, cols |-> {},
     indices |-> <<>>, start |-> <<>>, todo |-> {}, changed |-> FALSE,
     passes |-> 0, out |-> FrameIdle, prev |-> FrameIdle]

\* the AtomFrame objects there are, in the order they were made: the place
\* of an object in the heap is its identity, and the object knows it (id)
HeapIdle == <<>>

HNoCall ==
    [op |-> "none", self |-> 0, before |-> FrameIdle, args |-> <<>>,
     out |-> Raised("none")]

\* ------------------------------------------------------------------------
\* cell.py as a state machine: cell is the record of the last call of
\* cell_to_ortho (its arguments and what it returned or raised) and, once
\* ortho_to_cell was applied to the returned transform, of that call.
\* ------------------------------------------------------------------------

\* angles from -pi/6 to 7 pi/6 in steps of pi/6, and None
AngleValues == { k * One : k \in -1..7 }

AngleInputs == { <<al, be, ga>> : al \in AngleValues, be \in AngleValues, ga \in AngleValues }
                   \cup { <<>> }

\* lengths (3, 4, 5), (1.5, 1, 2), one with a zero, one negative, and None
SizeInputs == { <<3 * One, 4 * One, 5 * One>>, <<1500, One, 2 * One>>,
                <<2 * One, 0, One>>, <<-3 * One, 4 * One, 5 * One>>, <<>> }

NoBack == [status |-> "none", val |-> <<>>]

CellIdle == [op |-> "none", angle |-> <<>>, size |-> <<>>, rounding |-> "exact",
             out |-> NoBack, back |-> NoBack]

\* cell_to_ortho(angle, size)
CellToOrtho ==
    /\ cell.op = "none"
    /\ \E angle \in AngleInputs, size \in SizeInputs :
      \E rounding \in (IF validate_cell_size(size).status = "ok"
                           /\ validate_cell_angle(angle).status = "ok"
                           /\ ~all_right_angles(validate_cell_angle(angle).val)
                        THEN Roundings(angle) ELSE {"exact"}) :
        cell' = [op |-> "cell_to_ortho", angle |-> angle, size |-> size,
                 rounding |-> rounding,
                 out |-> cell_to_ortho(angle, size, rounding), back |-> NoBack]
    /\ UNCHANGED <<ta, tb, ncomp, res, frame, fres, dd, heap, hres>>

\* ortho_to_cell(the transform cell_to_ortho returned)
OrthoToCell ==
    /\ cell.op = "cell_to_ortho"
    /\ cell.out.status = "ok"
    /\ cell' = [cell EXCEPT !.op = "ortho_to_cell", !.back = ortho_to_cell(cell.out.val)]
    /\ UNCHANGED <<ta, tb, ncomp, res, frame, fres, dd, heap, hres>>

CellInit == TIdle /\ cell = CellIdle /\ frame = FrameIdle /\ fres = FNoCall
    /\ dd = DedupIdle /\ heap = HeapIdle /\ hres = HNoCall

CellNext == CellToOrtho \/ OrthoToCell

SpecCell == CellInit /\ [][CellNext]_vars

\* ------------------------------------------------------------------------
\* The atom collections: a collection is built from its rows, then
\* with_coords and with_type are called on it; the caller may keep the
\* collection with_type returned in place of the one it had.
\* ------------------------------------------------------------------------

\* the atoms a collection is built from: x, y, z and the symbol
RowPool ==
    { [x |-> 0,  y |-> 0, z |-> 0, symbol |-> "Ag+"],
      [x |-> 1,  y |-> 2, z |-> 3, symbol |-> "Na"],
      [x |-> -1, y |-> 0, z |-> 2, symbol |-> "H"],
      [x |-> 1,  y |-> 2, z |-> 3, symbol |-> "Ag"] }

FrameRows == UNION { [1..n -> RowPool] : n \in 0..MaxRows }

\* the columns of the rows, as handed to AtomFrame(...)
FromRows(rows) ==
    [c \in {"x", "y", "z", "symbol"} |-> [i \in 1..Len(rows) |-> rows[i][c]]]

\* the i-th row of the points handed to with_coords
NewPoint(i) == <<10 + i, 20 + i, -i>>

PtsInputs == { [i \in 1..k |-> NewPoint(i)] : k \in 1..MaxRows }

\* None, True, every mask of the length of the collection, one too long
SelectionInputs(n) ==
    {None, Scalar(TRUE)} \cup { Mask(m) : m \in [1..n -> BOOLEAN] }
        \cup { Mask([i \in 1..(n + 1) |-> TRUE]) }

\* None, one type for all atoms, one type per atom
TypesInputs(n) == { None, Scalar(7), Array([i \in 1..n |-> 10 * i]) }

NoArgs == [pts |-> <<>>, selection |-> None, types |-> None]

FrameCall(op, self, args, out) == [op |-> op, self |-> self, args |-> args, out |-> out]

\* frame.with_coords(pts, selection)
WithCoords ==
    /\ fres.op = "none"
    /\ \E pts \in PtsInputs, selection \in SelectionInputs(NumRows(frame.df)) :
          fres' = FrameCall("with_coords", frame,
                            [NoArgs EXCEPT !.pts = pts, !.selection = selection],
                            with_coords(frame, pts, selection))
    /\ UNCHANGED <<ta, tb, ncomp, res, cell, frame, dd, heap, hres>>

\* frame.with_type(types)
WithType ==
    /\ fres.op = "none"
    /\ \E types \in TypesInputs(NumRows(frame.df)) :
          fres' = FrameCall("with_type", frame, [NoArgs EXCEPT !.types = types],
                            with_type(frame, types))
    /\ UNCHANGED <<ta, tb, ncomp, res, cell, frame, dd, heap, hres>>

\* frame = frame.with_type(): the caller goes on with what was returned
Adopt ==
    /\ fres.op = "with_type"
    /\ fres.args.types = None
    /\ fres.out.status = "ok"
    /\ frame' = fres.out.val
    /\ fres' = FNoCall
    /\ UNCHANGED <<ta, tb, ncomp, res, cell, dd, heap, hres>>

FrameInit ==
    /\ TIdle
    /\ cell = CellIdle
    /\ \E rows \in FrameRows : frame = AtomFrame_new(FromRows(rows), FALSE).val
    /\ fres = FNoCall
    /\ dd = DedupIdle /\ heap = HeapIdle /\ hres = HNoCall

FrameNext == WithCoords \/ WithType \/ Adopt

SpecFrame == FrameInit /\ [][FrameNext]_vars

\* ------------------------------------------------------------------------
\* deduplicate, statement by statement: the call sets the labels up, the
\* for loop visits the pairs of a pass in the order the set yields them,
\* the end of a pass either starts the next pass or leaves the loop and
\* builds the result.  The caller may deduplicate the result once more.
\* ------------------------------------------------------------------------

\* how many atoms a collection that is deduplicated has at most
MaxAtoms == 3

\* atoms on a line: 0-1 and 1-2 are within the tolerance, 0-2 is not, 4 is
\* alone; a sodium atom on the place of a silver atom
DedupPool ==
    { [x |-> 0, y |-> 0, z |-> 0, symbol |-> "Ag"],
      [x |-> 1, y |-> 0, z |-> 0, symbol |-> "Ag"],
      [x |-> 2, y |-> 0, z |-> 0, symbol |-> "Ag"],
      [x |-> 4, y |-> 0, z |-> 0, symbol |-> "Ag"],
      [x |-> 1, y |-> 0, z |-> 0, symbol |-> "Na"] }

DedupRows == UNION { [1..n -> DedupPool] : n \in 1..MaxAtoms }

DedupTolerances == { 1 }

\* the default cols, and cols without the symbol
DedupCols == { {"x", "y", "z", "symbol"}, {"x", "y", "z"} }

\* self.deduplicate(tolerance, cols), up to the first pass of the loop
DedupBegin(self, tolerance, cols, round, prev) ==
    dd' = [pc |-> "loop", round |-> round, tolerance |-> tolerance, cols |-> cols,
           indices |-> [r \in 1..NumRows(self.df) |-> r],
           start |-> [r \in 1..NumRows(self.df) |-> r],
           todo |-> query_pairs(self.df, spatial_cols(cols), tolerance),
           changed |-> FALSE, passes |-> 0, out |-> FrameIdle, prev |-> prev]

\* frame.deduplicate(tolerance, cols)
DedupCall ==
    /\ dd.pc = "idle"
    /\ \E tolerance \in DedupTolerances, cols \in DedupCols :
          DedupBegin(frame, tolerance, cols, 1, FrameIdle)
    /\ UNCHANGED <<ta, tb, ncomp, res, cell, frame, fres, heap, hres>>

\* one turn of the for loop, for any pair the pass has not visited yet
DedupPair ==
    /\ dd.pc = "loop"
    /\ \E pair \in dd.todo :
          LET m == merge_pair(dd.indices, dd.changed, pair[1], pair[2])
          IN  dd' = [dd EXCEPT !.indices = m.indices, !.changed = m.changed,
                               !.todo = dd.todo \ {pair}]
    /\ UNCHANGED <<ta, tb, ncomp, res, cell, frame, fres, heap, hres>>

\* a loop that is left after its first pass, changed or not
DedupPassEnd_once ==
    /\ dd.pc = "loop"
    /\ dd.todo = {}
    /\ dd' = [dd EXCEPT !.pc = "done", !.passes = dd.passes + 1,
                        !.out = dedup_result(frame, dd.cols, dd.indices)]
    /\ UNCHANGED <<ta, tb, ncomp, res, cell, frame, fres, heap, hres>>

\* the for loop is through: `if not changed: break`, and the statements
\* after the loop; else the next pass
DedupPassEnd ==
    /\ dd.pc = "loop"
    /\ dd.todo = {}
    /\ IF dd.changed
       THEN dd' = [dd EXCEPT !.changed = FALSE, !.start = dd.indices,
                             !.passes = dd.passes + 1,
                             !.todo = query_pairs(frame.df, spatial_cols(dd.cols),
                                                  dd.tolerance)]
       ELSE dd' = [dd EXCEPT !.pc = "done", !.passes = dd.passes + 1,
                             !.out = dedup_result(frame, dd.cols, dd.indices)]
    /\ UNCHANGED <<ta, tb, ncomp, res, cell, frame, fres, heap, hres>>

\* frame = frame.deduplicate(...); frame.deduplicate(...) with the same
\* tolerance and cols
DedupAgain ==
    /\ dd.pc = "done"
    /\ dd.round = 1
    /\ NumRows(dd.out.df) >= 1
    /\ frame' = dd.out
    /\ DedupBegin(dd.out, dd.tolerance, dd.cols, 2, dd.out)
    /\ UNCHANGED <<ta, tb, ncomp, res, cell, fres, heap, hres>>

DedupInit ==
    /\ TIdle
    /\ cell = CellIdle
    /\ \E rows \in DedupRows : frame = AtomFrame_new(FromRows(rows), FALSE).val
    /\ fres = FNoCall
    /\ dd = DedupIdle /\ heap = HeapIdle /\ hres = HNoCall

DedupNext == DedupCall \/ DedupPair \/ DedupPassEnd \/ DedupAgain

SpecDedup == DedupInit /\ [][DedupNext]_vars

\* the loop is not left waiting: a started call runs on
SpecDedupFair ==
    SpecDedup /\ WF_vars(DedupPair) /\ WF_vars(DedupPassEnd)

\* ------------------------------------------------------------------------
\* The AtomFrame objects: a collection is constructed from column data,
\* the mutators are called on the object made last, and bbox is read on
\* any object.  What a call returns is an object of the heap: the receiver,
\* where the code returns self, or an object made by the call.
\* ------------------------------------------------------------------------

\* how many AtomFrame objects there are at most
MaxObjects == 2

\* the atoms the column data is about, with velocity, type and index
HeapRows ==
    << [x |-> 0,  y |-> 0, z |-> 0, elem |-> 47, symbol |-> "Ag+",
        v_x |-> 1, v_y |-> 0, v_z |-> 0,  type |-> 3, i |-> 0],
       [x |-> 1,  y |-> 2, z |-> 3, elem |-> 11, symbol |-> "Na",
        v_x |-> 0, v_y |-> 2, v_z |-> 0,  type |-> 2, i |-> 1],
       [x |-> -1, y |-> 0, z |-> 2, elem |-> 1,  symbol |-> "H",
        v_x |-> 0, v_y |-> 0, v_z |-> -1, type |-> 1, i |-> 2] >>

\* the column sets data is given with: the five required columns, with
\* velocities, with velocities, type and index, and with a column missing
ColumnInputs ==
    { RequiredColumns,
      RequiredColumns \cup VelocityColumns,
      RequiredColumns \cup VelocityColumns \cup {"type", "i"},
      RequiredColumns \ {"elem"},
      RequiredColumns \ {"symbol"},
      RequiredColumns \ {"elem", "symbol"},
      RequiredColumns \ {"x"},
      (RequiredColumns \cup VelocityColumns) \ {"z", "elem"} }

\* data of all the atoms for every column set, and of one atom
DataInputs ==
    { [c \in cols |-> [r \in 1..Len(HeapRows) |-> HeapRows[r][c]]] : cols \in ColumnInputs }
        \cup { [c \in RequiredColumns \cup VelocityColumns |-> <<HeapRows[1][c]>>] }

\* None, all rows, the first two rows, and a mask that is too long
HeapSelections(n) ==
    { None,
      Mask([r \in 1..n |-> TRUE]),
      Mask([r \in 1..n |-> r <= 2]),
      Mask([r \in 1..(n + 1) |-> TRUE]) }

\* one point, two points, a point for each row
HeapPts(n) == { [r \in 1..k |-> NewPoint(r)] : k \in {1, 2, n} }

\* None, one value, a value for each row, two values
HeapValues(n) ==
    { None, Scalar(7), Array([r \in 1..n |-> 10 * r]), Array(<<5, 6>>) }

\* a quarter turn about z with a translation, and a scale with a mirror
HeapTransforms ==
    { Affine(<< <<0, -1, 0, 1>>, <<1, 0, 0, 0>>, <<0, 0, 1, -2>>, <<0, 0, 0, 1>> >>),
      Linear(<< <<2, 0, 0>>, <<0, 1, 0>>, <<0, 0, -1>> >>) }

HeapTolerances == { 2 }

\* set_at_idx is reached only by a call with a selection
SetAtIdxOf(selection) ==
    IF selection.kind = "none" THEN {"mask"} ELSE SetAtIdxModes

\* AtomFrame.__init__ on a new object: the object, with its identity
alloc(inst, id) == [df |-> inst.df, bbox |-> inst.bbox, id |-> id]

\* the receiver of the mutators: the object made last
Latest == heap[Len(heap)]

\* a call has returned or raised: an object the call made is put on the
\* heap, the receiver handed back is the object it was
HeapCall(op, self, args, result) ==
    LET made == result.status = "ok" /\ "id" \notin DOMAIN result.val
        id   == IF made THEN Len(heap) + 1 ELSE result.val.id
    IN  /\ heap' = IF made THEN Append(heap, alloc(result.val, id)) ELSE heap
        /\ hres' = [op |-> op, self |-> self,
                    before |-> IF self = 0 THEN FrameIdle ELSE heap[self],
                    args |-> args,
                    out |-> IF result.status = "ok" THEN Returned(id) ELSE result]

\* nothing catches what a call raises: the run ends there
Running == hres.out.status = "ok"

CanCall == Running /\ Len(heap) >= 1 /\ Len(heap) < MaxObjects

\* AtomFrame(data)
Construct ==
    /\ heap = <<>>
    /\ hres.op = "none"
    /\ \E data \in DataInputs :
          HeapCall("AtomFrame", 0, [data |-> data], AtomFrame_new(data, FALSE))
    /\ UNCHANGED <<ta, tb, ncomp, res, cell, frame, fres, dd>>

HWithType ==
    /\ CanCall
    /\ \E types \in HeapValues(NumRows(Latest.df)) :
          HeapCall("with_type", Len(heap), [values |-> types], with_type(Latest, types))
    /\ UNCHANGED <<ta, tb, ncomp, res, cell, frame, fres, dd>>

HWithIndex ==
    /\ CanCall
    /\ \E index \in HeapValues(NumRows(Latest.df)) :
          HeapCall("with_index", Len(heap), [values |-> index], with_index(Latest, index))
    /\ UNCHANGED <<ta, tb, ncomp, res, cell, frame, fres, dd>>

HWithCoords ==
    /\ CanCall
    /\ \E pts \in HeapPts(NumRows(Latest.df)),
          selection \in HeapSelections(NumRows(Latest.df)) :
          HeapCall("with_coords", Len(heap),
                   [values |-> Array(pts), selection |-> selection],
                   with_coords(Latest, pts, selection))
    /\ UNCHANGED <<ta, tb, ncomp, res, cell, frame, fres, dd>>

HWithVelocity ==
    /\ CanCall
    /\ \E pts \in {None} \cup { Array(a) : a \in HeapPts(NumRows(Latest.df)) },
          selection \in HeapSelections(NumRows(Latest.df)) :
        \E mode \in SetAtIdxOf(selection) :
          HeapCall("with_velocity", Len(heap),
                   [values |-> pts, selection |-> selection],
                   with_velocity(Latest, pts, selection, mode))
    /\ UNCHANGED <<ta, tb, ncomp, res, cell, frame, fres, dd>>

HTransform ==
    /\ CanCall
    /\ \E t \in HeapTransforms,
          selection \in HeapSelections(NumRows(Latest.df)),
          transform_velocities \in BOOLEAN :
        \E mode \in SetAtIdxOf(selection) :
          HeapCall("transform", Len(heap),
                   [transform |-> t, selection |-> selection,
                    transform_velocities |-> transform_velocities],
                   AtomFrame_transform(Latest, t, selection, transform_velocities, mode))
    /\ UNCHANGED <<ta, tb, ncomp, res, cell, frame, fres, dd>>

HRoundNearZero ==
    /\ CanCall
    /\ \E tolerance \in HeapTolerances :
          HeapCall("round_near_zero", Len(heap), [tolerance |-> tolerance],
                   Returned(round_near_zero(Latest, tolerance)))
    /\ UNCHANGED <<ta, tb, ncomp, res, cell, frame, fres, dd>>

\* obj.bbox, on any object that has atoms
HBbox ==
    /\ Running
    /\ \E id \in 1..Len(heap) :
          /\ NumRows(heap[id].df) >= 1
          /\ heap' = [heap EXCEPT ![id] = bbox(heap[id]).self]
          /\ hres' = [op |-> "bbox", self |-> id, before |-> heap[id], args |-> <<>>,
                      out |-> Returned(bbox(heap[id]).out)]
    /\ UNCHANGED <<ta, tb, ncomp, res, cell, frame, fres, dd>>

HeapInit ==
    /\ TIdle
    /\ cell = CellIdle
    /\ frame = FrameIdle /\ fres = FNoCall
    /\ dd = DedupIdle /\ heap = HeapIdle /\ hres = HNoCall

HeapNext ==
    \/ Construct \/ HWithType \/ HWithIndex \/ HWithCoords \/ HWithVelocity
    \/ HTransform \/ HRoundNearZero \/ HBbox

SpecHeap == HeapInit /\ [][HeapNext]_vars


Init == TInit /\ cell = CellIdle /\ frame = FrameIdle /\ fres = FNoCall
    /\ dd = DedupIdle /\ heap = HeapIdle /\ hres = HNoCall

Next ==
    \/ Translate \/ Scale \/ Rotate \/ RotateEuler \/ Mirror
    \/ Compose \/ ToLinear \/ Matmul \/ Transform \/ Inverse

Spec == Init /\ [][Next]_vars

\* ------------------------------------------------------------------------
\* Claims about the transform algebra
\* ------------------------------------------------------------------------

IsTransformCall(op) == res.op = op /\ res.other.tag = "Transform"

\* C1: for any transforms A and B and any point p,
\* transform(compose(A, B), p) = transform(B, transform(A, p)):
\* compose applies the receiver first and the argument second.
C1_ComposeAppliesReceiverFirst ==
    res.op = "compose" =>
        \A p \in Probe :
            apply(res.out, p) = apply(res.other.val, apply(res.a, p))

\* a composition whose two orders differ, of an affine and a linear transform
C1_Witness ==
    /\ res.op = "compose"
    /\ res.a.kind = "affine" /\ res.other.val.kind = "linear"
    /\ \E p \in Probe :
          apply(res.other.val, apply(res.a, p)) # apply(res.a, apply(res.other.val, p))

\* the builder op called on the class itself, i.e. on a new identity
BuiltAlone(op, cls, a) ==
    CASE op = "translate"    -> translate(New(cls), a[1], a[2], a[3])
      [] op = "scale"        -> scale(New(cls), a[1], a[2], a[3], a[4])
      [] op = "rotate"       -> rotate(New(cls), a[1], a[2])
      [] op = "rotate_euler" -> rotate_euler(New(cls), a[1], a[2], a[3])
      [] op = "mirror"       -> mirror(New(cls), a)

BuilderOps == {"translate", "scale", "rotate", "rotate_euler", "mirror"}

\* C2: every builder operation called on an existing transform X returns
\* "apply X first, then the built operation"; X is not discarded.
C2_BuildersComposeOntoReceiver ==
    res.op \in BuilderOps =>
        \A p \in Probe :
            apply(res.out, p)
                = apply(BuiltAlone(res.op, res.a.kind, res.other), apply(res.a, p))

\* C3: the kind of compose(A, B) follows the promotion table: linear with
\* linear is linear (3x3); any pair with an affine operand is affine (4x4),
\* and a linear operand contributes zero translation to it.
C3_ComposePromotion ==
    res.op = "compose" =>
        LET A == res.a
            B == res.other.val
            R == res.out
        IN  /\ R.kind = (IF A.kind = "linear" /\ B.kind = "linear"
                          THEN "linear" ELSE "affine")
            /\ Len(R.inner) = (IF R.kind = "linear" THEN 3 ELSE 4)
            /\ \A i \in 1..Len(R.inner) : Len(R.inner[i]) = Len(R.inner)
            /\ Block3(R.inner) = MatMul(Block3(B.inner), Block3(A.inner))
            /\ R.kind = "affine" => R.inner[4] = <<0, 0, 0, 1>>
            /\ (A.kind = "linear" /\ B.kind = "affine")
                    => translation(R) = translation(B)
            /\ (A.kind = "affine" /\ B.kind = "linear")
                    => translation(R) = MatVec(B.inner, translation(A))

\* a linear receiver composed with an affine argument that translates
C3_Witness ==
    /\ res.op = "compose"
    /\ res.a.kind = "linear" /\ res.other.val.kind = "affine"
    /\ translation(res.other.val) # <<0, 0, 0>>
    /\ res.out.kind = "affine"

\* C4: X @ Y applies Y first and then X (it is compose(Y, X)); with points
\* on the right, X @ points is transform(X, points).
C4_MatmulAppliesRightFirst ==
    res.op = "matmul" =>
        /\ res.other.tag = "Transform" =>
              /\ \A p \in Probe :
                    apply(res.out, p) = apply(res.a, apply(res.other.val, p))
              /\ res.out.kind = (IF res.a.kind = "linear" /\ res.other.val.kind = "linear"
                                 THEN "linear" ELSE "affine")
        /\ res.other.tag = "Vec3" => res.out = apply(res.a, res.other.val)
        /\ res.other.tag = "BBox" =>
              res.out = from_pts({ apply(res.a, c) : c \in corners(res.other.val) })

\* X @ Y of two transforms whose two orders differ
C4_Witness ==
    /\ IsTransformCall("matmul")
    /\ res.a.kind # res.other.val.kind
    /\ \E p \in Probe :
          apply(res.a, apply(res.other.val, p)) # apply(res.other.val, apply(res.a, p))

\* C5: for an invertible X, compose(X, inverse(X)) maps every point to
\* itself; the inverse of an affine X with linear block L and translation t
\* has linear block L^-1 and translation L^-1 applied to -t.
C5_InverseUndoes ==
    res.op = "inverse" =>
        LET X == res.a
            Y == res.out
        IN  /\ Y.kind = X.kind
            /\ \A p \in Probe : apply(compose(X, Y), p) = p
            /\ MatMul(Block3(Y.inner), Block3(X.inner)) = Eye(3)
            /\ X.kind = "affine" =>
                  LET t == translation(X)
                  IN  translation(Y)
                        = MatVec(Block3(Y.inner), <<-t[1], -t[2], -t[3]>>)

\* the inverse of an affine transform whose linear block moves its translation
C5_Witness ==
    /\ res.op = "inverse"
    /\ res.a.kind = "affine"
    /\ translation(res.a) # <<0, 0, 0>>
    /\ MatVec(Block3(res.out.inner), translation(res.a)) # translation(res.a)

\* C6: a transformed bounding box is the axis-aligned box of the 8
\* transformed corners: each side is attained by a transformed corner, all
\* transformed corners lie inside, and min <= max on every axis.
C6_BoxOfTransformedCorners ==
    (res.op \in {"transform", "matmul"} /\ res.other.tag = "BBox") =>
        LET cs == { apply(res.a, c) : c \in corners(res.other.val) }
        IN  \A i \in 1..3 :
              /\ res.out.min[i] <= res.out.max[i]
              /\ \A c \in cs : res.out.min[i] <= c[i] /\ c[i] <= res.out.max[i]
              /\ \E c \in cs : c[i] = res.out.min[i]
              /\ \E c \in cs : c[i] = res.out.max[i]

\* a box transformed by a transform that reverses an axis: the image of the
\* min corner is not the min corner of the result
C6_Witness ==
    /\ res.op = "transform" /\ res.other.tag = "BBox"
    /\ det(res.a) < 0
    /\ apply(res.a, res.other.val.min) # res.out.min

\* ------------------------------------------------------------------------
\* Claims about the cell geometry
\* ------------------------------------------------------------------------

\* how far a recovered angle (in units of pi/6000) and a recovered length
\* (in thousandths) may lie from the one given
AngleTol == 4

SizeTol == 1

\* the arguments in effect: None stands for right angles, for unit lengths
EffAngle(angle) == IF angle = <<>> THEN <<Pi \div 2, Pi \div 2, Pi \div 2>> ELSE angle

EffSize(size) == IF size = <<>> THEN <<One, One, One>> ELSE size

\* invalid cell parameters: a zero length, an angle outside of the open
\* interval (0, pi), or angles that sum to 2 pi or more
InvalidCell(angle, size) ==
    \/ \E i \in 1..3 : EffSize(size)[i] = 0
    \/ \E i \in 1..3 : EffAngle(angle)[i] <= 0 \/ EffAngle(angle)[i] >= Pi
    \/ EffAngle(angle)[1] + EffAngle(angle)[2] + EffAngle(angle)[3] >= 2 * Pi

\* valid cell parameters: positive lengths, each angle in (0, pi), sum < 2 pi
ValidCell(angle, size) ==
    /\ \A i \in 1..3 : EffSize(size)[i] > 0
    /\ \A i \in 1..3 : EffAngle(angle)[i] > 0 /\ EffAngle(angle)[i] < Pi
    /\ EffAngle(angle)[1] + EffAngle(angle)[2] + EffAngle(angle)[3] < 2 * Pi

\* C7: cell_to_ortho fails with a cell-validation error whenever the cell
\* parameters are invalid (a zero length, an angle outside of (0, pi), the
\* bounds 0 and pi included, or an angle sum of 2 pi or more).
C7_InvalidCellRejected ==
    (cell.op = "cell_to_ortho" /\ InvalidCell(cell.angle, cell.size))
        => cell.out.status = "ValueError"

\* the recovered parameters are the given ones, within the tolerances
Reproduced(back, angle, size) ==
    /\ back.status = "ok"
    /\ \A i \in 1..3 :
          /\ ~back.val.cell_angle[i].nan
          /\ Abs(back.val.cell_angle[i].val - EffAngle(angle)[i]) <= AngleTol
          /\ Abs(back.val.cell_size[i] - EffSize(size)[i]) <= SizeTol

EffMask(selection, n) ==
    IF selection.kind = "mask" THEN selection.val ELSE [i \in 1..n |-> TRUE]

\* C9: with_coords(new_points, selection=S) returns a collection in which
\* exactly the rows where S is true carry the new coordinates, in order (the
\* one new point where a single point is given), every row where S is false
\* has the x, y, z of the receiver, and the columns other than x, y, z and
\* the number of rows are those of the receiver.
C9_WithCoordsSelection ==
    (fres.op = "with_coords" /\ fres.out.status = "ok") =>
        LET old  == fres.self.df
            new  == fres.out.val.df
            pts  == fres.args.pts
            n    == NumRows(old)
            mask == EffMask(fres.args.selection, n)
        IN  /\ DOMAIN new = DOMAIN old
            /\ \A c \in DOMAIN old : Len(new[c]) = n
            /\ \A c \in DOMAIN old \ {"x", "y", "z"} : new[c] = old[c]
            /\ \A i \in 1..n :
                  LET p == <<new["x"][i], new["y"][i], new["z"][i]>>
                  IN  IF mask[i]
                      THEN p = pts[IF Len(pts) = 1 THEN 1 ELSE CountTo(mask, i)]
                      ELSE p = <<old["x"][i], old["y"][i], old["z"][i]>>

\* a selection of two rows or more that leaves a row out, one new point for
\* each selected row, on a collection that has a type column
C9_Witness ==
    /\ fres.op = "with_coords" /\ fres.out.status = "ok"
    /\ fres.args.selection.kind = "mask"
    /\ "type" \in DOMAIN fres.self.df
    /\ Len(fres.args.pts) >= 2
    /\ \E i, j \in 1..NumRows(fres.self.df) :
          i < j /\ ~fres.args.selection.val[i] /\ fres.args.selection.val[j]

Close(i, j) ==
    /\ i # j
    /\ SqDist(frame.df, dd.cols \cap {"x", "y", "z"}, i, j) <= dd.tolerance * dd.tolerance

\* the rows a chain of close rows leads to from the rows S
RECURSIVE Chained(_)
Chained(S) ==
    LET T == S \cup { j \in 1..NumRows(frame.df) : \E i \in S : Close(i, j) }
    IN  IF T = S THEN S ELSE Chained(T)

\* the smallest row of the rows S
FirstRow(S) == CHOOSE r \in S : \A q \in S : r <= q

\* rows i and j agree in the columns of cols that are not x, y, z
SameAttributes(i, j) ==
    \A c \in dd.cols \ {"x", "y", "z"} : frame.df[c][i] = frame.df[c][j]

\* the rows of the receiver that no earlier row of the same chain with the
\* same attributes precedes
FirstOfChain ==
    [r \in 1..NumRows(frame.df) |->
        \A q \in 1..(r - 1) : ~(q \in Chained({r}) /\ SameAttributes(q, r))]

\* C11: when the labelling loop of deduplicate has ended, any two rows that
\* a chain of pairwise close rows connects carry the same label, the
\* smallest row number of their chain, also when the two are farther apart
\* than the tolerance; of the rows of a chain with equal attributes only
\* the first is in the result.
C11_ChainsMergeTransitively ==
    dd.pc = "done" =>
        /\ \A r \in 1..NumRows(frame.df) :
              dd.indices[r] = FirstRow(Chained({r}))
        /\ \A c \in DOMAIN frame.df :
              dd.out.df[c] = select_rows(frame.df[c], FirstOfChain, 1)

\* three atoms with equal attributes, the first and the last farther apart
\* than the tolerance and both close to the middle one, have become one
C11_Witness ==
    /\ dd.pc = "done"
    /\ NumRows(frame.df) = 3
    /\ Close(1, 2) /\ Close(2, 3) /\ ~Close(1, 3)
    /\ SameAttributes(1, 2) /\ SameAttributes(2, 3)
    /\ dd.indices = <<1, 1, 1>>
    /\ NumRows(dd.out.df) = 1
    /\ dd.out.df["x"] = <<frame.df["x"][1]>>

\* the key of row r: its label and its values in the columns left in cols
KeyOf(r) == <<dd.indices[r], [c \in dd.cols \ {"x", "y", "z"} |-> frame.df[c][r]]>>

\* the rows of the receiver no earlier row has the key of
FirstOfKey == [r \in 1..NumRows(frame.df) |-> \A q \in 1..(r - 1) : KeyOf(q) # KeyOf(r)]

\* the result is the first row of every key, in the order of the rows
KeepsFirstOfKey ==
    /\ \A c \in DOMAIN frame.df :
          dd.out.df[c] = select_rows(frame.df[c], FirstOfKey, 1)
    /\ DOMAIN dd.out.df = DOMAIN frame.df
    /\ NumRows(dd.out.df) = Cardinality({ KeyOf(r) : r \in 1..NumRows(frame.df) })

\* C16, as stated: deduplicate keeps exactly the first row, in the order of
\* the rows, of every key (label, values of the columns of cols other than
\* x, y, z), and two rows within the tolerance of each other that differ in
\* such a column are both kept.
C16_CloseButDifferentBothKept ==
    dd.pc = "done" =>
        /\ KeepsFirstOfKey
        /\ \A i, j \in 1..NumRows(frame.df) :
              (Close(i, j) /\ ~SameAttributes(i, j)) => (FirstOfKey[i] /\ FirstOfKey[j])

\* C16, amended: deduplicate keeps exactly the first row, in the order of
\* the rows, of every key; two rows within the tolerance of each other that
\* differ in a column of the key have different keys, and neither removes
\* the other: each is kept exactly if no third, earlier row has its key.
C16_KeepsFirstRowOfEachKey ==
    dd.pc = "done" =>
        /\ KeepsFirstOfKey
        /\ \A i, j \in 1..NumRows(frame.df) :
              (Close(i, j) /\ ~SameAttributes(i, j)) =>
                  /\ KeyOf(i) # KeyOf(j)
                  /\ FirstOfKey[j] <=>
                        \A q \in (1..(j - 1)) \ {i} : KeyOf(q) # KeyOf(j)

\* a silver and a sodium atom on one place are both kept, a second silver
\* atom on that place is not
C16_Witness ==
    /\ dd.pc = "done"
    /\ NumRows(frame.df) = 3
    /\ frame.df["symbol"] = <<"Ag", "Na", "Ag">>
    /\ Close(1, 2) /\ Close(2, 3) /\ Close(1, 3)
    /\ dd.out.df["symbol"] = <<"Ag", "Na">>

\* a step of the loop of one call: from the loop to the loop or out of it
LoopStep == dd.pc = "loop" /\ dd'.pc \in {"loop", "done"}

\* no label grows in a step of the loop
LabelsNeverIncrease ==
    LoopStep => \A r \in 1..Len(dd.indices) : dd'.indices[r] <= dd.indices[r]

\* at the end of a pass: changed is reported exactly if a label is lower
\* than when the pass began, and the loop is left exactly if it is not
PassEndDecides ==
    (LoopStep /\ dd.todo = {}) =>
        /\ dd.changed <=> \E r \in 1..Len(dd.indices) : dd.indices[r] < dd.start[r]
        /\ ~dd.changed => (dd.indices = dd.start /\ dd'.pc = "done")
        /\ dd.changed => (dd'.pc = "loop" /\ dd'.passes = dd.passes + 1)

\* C17: the label-merging loop of deduplicate terminates: a label never
\* increases during a pass, a pass that reports a change has lowered a
\* label, the loop is left at the end of the first pass over all the close
\* pairs that changes no label, and every call that enters the loop
\* leaves it.
C17_LoopTerminates ==
    /\ [][LabelsNeverIncrease /\ PassEndDecides]_vars
    /\ (dd.pc = "loop") ~> (dd.pc = "done")

\* a chain of three atoms that took three passes: two that lowered a label
\* and the one that found nothing to change
C17_Witness ==
    /\ dd.pc = "done"
    /\ dd.passes = 3
    /\ dd.indices = <<1, 1, 1>>
    /\ dd.start = dd.indices

\* C19: deduplicate is idempotent: deduplicating the result of deduplicate
\* once more, with the same tolerance and cols, gives the same rows in the
\* same order.
C19_DeduplicateIdempotent ==
    (dd.pc = "done" /\ dd.round = 2) =>
        /\ dd.out.df = dd.prev.df
        /\ \A r \in 1..NumRows(frame.df) : FirstOfKey[r]

\* the second call found two atoms of different symbols within the
\* tolerance, gave them one label and kept both
C19_Witness ==
    /\ dd.pc = "done" /\ dd.round = 2
    /\ NumRows(dd.prev.df) = 2
    /\ dd.indices = <<1, 1>>
    /\ dd.passes = 2
    /\ dd.out.df["symbol"] = <<"Ag", "Na">>

\* ------------------------------------------------------------------------
\* Claims about the AtomFrame objects
\* ------------------------------------------------------------------------

\* the mutators of the model
Mutators ==
    {"with_type", "with_index", "with_coords", "with_velocity", "transform",
     "round_near_zero"}

\* C12: every mutator of the atom collection returns a newly allocated
\* instance that is not the receiver object, also where the column asked
\* for exists already and no values are given.
C12_MutatorsReturnNewInstance ==
    (hres.op \in Mutators /\ hres.out.status = "ok") =>
        /\ hres.out.val # hres.self
        /\ hres.out.val = Len(heap)

\* C13: constructing a collection from column data that lacks one of the
\* required columns x, y, z, elem, symbol fails with a validation error:
\* every collection that was constructed was given all five.
C13_MissingColumnRejected ==
    hres.op = "AtomFrame" =>
        (hres.out.status = "ok" <=> RequiredColumns \subseteq DOMAIN hres.args.data)

\* the x, y, z and the v_x, v_y, v_z of row r of a collection
CoordsOfRow(df, r) == <<df["x"][r], df["y"][r], df["z"][r]>>

VelocityOfRow(df, r) == <<df["v_x"][r], df["v_y"][r], df["v_z"][r]>>

\* C14: transform(T, selection=S, transform_velocities=True) on a
\* collection that has velocity columns succeeds for every selection S, also
\* one of more than one and fewer than all rows, and returns a collection in
\* which the selected rows have T applied to their coordinates and the
\* linear part of T applied to their velocities, and the other rows keep
\* both.
C14_TransformVelocitiesAnySelection ==
    (/\ hres.op = "transform"
     /\ hres.args.transform_velocities
     /\ has_velocities(hres.before)
     /\ hres.args.selection.kind = "mask"
     /\ Len(hres.args.selection.val) = NumRows(hres.before.df)) =>
        /\ hres.out.status = "ok"
        /\ LET old  == hres.before.df
               new  == heap[hres.out.val].df
               mask == hres.args.selection.val
               t    == hres.args.transform
           IN  \A r \in 1..NumRows(old) :
                 IF mask[r]
                 THEN /\ CoordsOfRow(new, r) = apply(t, CoordsOfRow(old, r))
                      /\ VelocityOfRow(new, r) = apply(to_linear(t), VelocityOfRow(old, r))
                 ELSE /\ CoordsOfRow(new, r) = CoordsOfRow(old, r)
                      /\ VelocityOfRow(new, r) = VelocityOfRow(old, r)

\* the with_* mutators that take values
ValueMutators == {"with_type", "with_index", "with_coords", "with_velocity"}

\* the call of hres was given an array of values
GivenArray == hres.op \in ValueMutators /\ hres.args.values.kind = "array"

\* the call of hres failed with a validation error and left its receiver,
\* and the heap, as they were
RejectedUnchanged ==
    /\ hres.out.status = "ValueError"
    /\ heap[hres.self] = hres.before
    /\ hres.self = Len(heap)

\* the number of rows with_coords lays its points over: the selected rows
CoordsRows ==
    IF hres.args.selection.kind = "mask"
    THEN CountTo(hres.args.selection.val, Len(hres.args.selection.val))
    ELSE NumRows(hres.before.df)

\* C15, as stated: a with_* mutator given an array of values whose length
\* is neither 1 nor the row count N fails with a validation error and
\* leaves the receiver as it was.
C15_LengthMismatchRejected ==
    (GivenArray /\ Len(hres.args.values.val) \notin {1, NumRows(hres.before.df)}) =>
        RejectedUnchanged

\* C15, amended: a with_* mutator given an array of values whose length is
\* neither 1 nor the number of rows the values are laid over (the row count
\* N; for with_coords with a selection the number of selected rows) fails
\* with a validation error and leaves the receiver as it was.
C15_LengthMismatchOfRowsLaidOver ==
    (GivenArray /\ Len(hres.args.values.val) \notin
        {1, IF hres.op = "with_coords" THEN CoordsRows ELSE NumRows(hres.before.df)}) =>
        RejectedUnchanged

\* with_type with two values on three atoms has failed
C15_Witness ==
    /\ hres.op = "with_type"
    /\ hres.args.values = Array(<<5, 6>>)
    /\ NumRows(hres.before.df) = 3
    /\ RejectedUnchanged

\* box is the componentwise minimum and maximum of the x, y, z of df
IsBoxOf(box, df) ==
    \A k \in 1..3 :
        /\ \A r \in 1..NumRows(df) :
              box.min[k] <= CoordsOfRow(df, r)[k] /\ CoordsOfRow(df, r)[k] <= box.max[k]
        /\ \E r \in 1..NumRows(df) : box.min[k] = CoordsOfRow(df, r)[k]
        /\ \E r \in 1..NumRows(df) : box.max[k] = CoordsOfRow(df, r)[k]

\* every filled memo, and every box read, is the box of the object's own
\* coordinates; an object a call has just made has an empty memo
MemoIsOwnBox ==
    /\ \A id \in 1..Len(heap) :
          heap[id].bbox # None => IsBoxOf(heap[id].bbox, heap[id].df)
    /\ hres.op = "bbox" =>
          /\ IsBoxOf(hres.out.val, heap[hres.self].df)
          /\ heap[hres.self].bbox = hres.out.val
    /\ (hres.op \in Mutators \cup {"AtomFrame"} /\ hres.out.status = "ok"
            /\ hres.out.val # hres.self) =>
          heap[hres.out.val].bbox = None

\* a memo that is filled stays as it is, and so do the columns of an object
MemoWrittenOnce ==
    \A id \in 1..Len(heap) :
        /\ heap'[id].df = heap[id].df
        /\ heap[id].bbox # None => heap'[id].bbox = heap[id].bbox

====
